---- MODULE Spec2Model ----
(***************************************************************************)
(* Verification model of the candle back-tester of this repository.        *)
(*                                                                         *)
(* TradeSimulator (src/backtest-trading-bot-v1.py, run_backtest): one      *)
(* action per iteration of the candle loop, one action for the code that   *)
(* follows the loop.                                                       *)
(*                                                                         *)
(* Units.  Prices are integers in tenths of a USD, so the 0.2 USD offsets  *)
(* are 2.  A position size is an integer number of thousandths of a unit,  *)
(* and money (capital, profit, money_used) is counted in price-unit times  *)
(* size-unit, i.e. in 1/10000 USD.  With these units entry * size and      *)
(* distance * size are exact; the one quotient of the program,             *)
(* position_size = available * 0.029 / entry, is truncated to the size     *)
(* grid.                                                                   *)
(***************************************************************************)
EXTENDS Integers, Sequences, FiniteSets, TLC

VARIABLES
    pc,              \* "loop" while run_backtest iterates, "done" after the loop's tail
    idx,             \* number of candles consumed by the loop (the row index + 1)
    candle,          \* the loop variable: the candle being processed (last_candle at the end)
    capital,         \* run_backtest: capital
    all_trades,      \* run_backtest: all_trades (the trade dicts, in open order)
    open_positions,  \* run_backtest: open_positions (aliases of all_trades' dicts, by id)
    total_trades_filtered, \* run_backtest: total_trades_filtered
    final_capital,   \* run_backtest: final_capital (0 until computed)
    total_trades_opened, \* run_backtest: total_trades_opened
    csv_data,        \* run_backtest: csv_data, the rows written to OUTPUT_FILE
    in_order,        \* candles_df: the rows consumed so far are in non-decreasing date order
    reward_risk,     \* calculate_lowest_drawdown: trades["reward_risk"] after astype(str)
    lp_pc,           \* New folder/main.py: position in calculate_lowest_drawdown
    lp_level,        \* New folder/main.py: reward_level, the loop variable
    lp_results,      \* New folder/main.py: results
    zc_pc,           \* calculate_lowest_drawdown.py: position in calculate_lowest_drawdown
    zc_level,        \* calculate_lowest_drawdown.py: reward_level, the loop variable
    zc_results,      \* calculate_lowest_drawdown.py: results
    next_sl_idx,     \* calculate_lowest_drawdown.py: next_sl_idx (<<>> while unbound)
    rp_pc,           \* calculate_lowest_drawdown.py: position in create_detailed_report
    rp_level,        \* create_detailed_report: reward_level, the loop variable
    rp_results,      \* create_detailed_report: the figures of report_lines, per level
    cs_pc,           \* main.py: position in backtest_candle_strategy
    data,            \* main.py: data, the candles sorted by datetime
    cs_i,            \* backtest_candle_strategy: i, the next row of the outer loop
    cs_trades,       \* backtest_candle_strategy: trades
    end_of_data_closes, \* backtest_candle_strategy: end_of_data_closes
    trades_df,       \* scoring functions: trades_df["reward_risk"]
    rr_threshold,    \* scoring functions: rr_threshold
    list_score,      \* calculate_list_score: the value returned (<<>> before the call)
    net_score,       \* calculate_net_score: the value returned, in tenths (<<>> before)
    max_losing_streak \* calculate_max_losing_streak: the value returned (<<>> before)

simulator_vars == <<pc, idx, candle, capital, all_trades, open_positions,
                    total_trades_filtered, final_capital, total_trades_opened,
                    csv_data, in_order>>

report_vars == <<rp_pc, rp_level, rp_results>>

analyzer_vars == <<reward_risk, lp_pc, lp_level, lp_results,
                   zc_pc, zc_level, zc_results, next_sl_idx, report_vars>>

strategy_vars == <<cs_pc, data, cs_i, cs_trades, end_of_data_closes>>

scoring_vars == <<trades_df, rr_threshold, list_score, net_score, max_losing_streak>>

vars == <<simulator_vars, analyzer_vars, strategy_vars, scoring_vars>>

----------------------------------------------------------------------------
(* Bounds *)

MaxCandles == 4

----------------------------------------------------------------------------
(* CONFIG *)

INITIAL_CAPITAL == 5000

POSITION_SIZE_PERCENT == 29

ENTRY_OFFSET == 2

SL_OFFSET == 2

EXCLUDED_TIME == "01:30"

InitialCapitalUnits == INITIAL_CAPITAL * 10 * 1000

(* DISTANCE_FILTERS: the integers and inclusive ranges of each side *)
DISTANCE_FILTERS_buy ==
    {3} \cup (6..10) \cup {12, 14} \cup (16..17) \cup {19, 23, 26, 28, 31}
        \cup (36..37) \cup (42..45) \cup (47..48) \cup (52..56) \cup (58..71) \cup {59}

DISTANCE_FILTERS_sell ==
    {2} \cup (4..11) \cup (13..19) \cup (21..22) \cup (24..25) \cup {29}
        \cup (31..34) \cup (36..38) \cup {40, 42, 47} \cup (49..56) \cup {58}
        \cup (62..64) \cup (67..72) \cup {74} \cup (77..94)

----------------------------------------------------------------------------
(* Input: the candle series.  Each row is (open, high, low, close) in      *)
(* tenths of a USD with low <= open, close <= high, and a time of day; its *)
(* date is its position in the series, so the rows are in time order.      *)

Times == {"01:30", "05:30"}

CandleShapes ==
    { <<196, 202, 196, 202>>,   \* bullish: Buy, entry 204, stop 194, target 214
      <<212, 212, 200, 200>>,   \* bearish: Sell, entry 198, stop 214, target 182
      <<200, 214, 182, 200>>,   \* close = open, wicks reach 214 and 182
      <<200, 214, 200, 202>>,   \* bullish, upper wick above its own target 210
      <<205, 205, 182, 200>>,   \* bearish, lower wick below its own target 189
      <<222, 222, 200, 200>>,   \* bearish, distance 2.6 USD (in the sell filter)
      <<200, 222, 200, 222>>,   \* bullish, distance 2.6 USD (not in the buy filter)
      <<9, 208, 8, 8>> }        \* bearish collapse: Sell, entry 6, stop 210, distance 204

Candles ==
    { [time |-> t, open |-> s[1], high |-> s[2], low |-> s[3], close |-> s[4]] :
        t \in Times, s \in CandleShapes }

(* The row of candles_df at position date *)
Row(c, date) ==
    [date |-> date, time |-> c.time,
     open |-> c.open, high |-> c.high, low |-> c.low, close |-> c.close]

NoCandle == [date |-> 0, time |-> "", open |-> 0, high |-> 0, low |-> 0, close |-> 0]

----------------------------------------------------------------------------
(* HELPER FUNCTIONS *)

Abs(x) == IF x < 0 THEN -x ELSE x

(* Variant of is_distance_filtered that rounds to the nearest integer *)
is_distance_filtered_nearest(distance, trade_type) ==
    LET rounded_distance == (distance + 5) \div 10
    IN  IF trade_type = "Buy"
          THEN rounded_distance \in DISTANCE_FILTERS_buy
          ELSE rounded_distance \in DISTANCE_FILTERS_sell

is_distance_filtered(distance, trade_type) ==
    LET rounded_distance == distance \div 10
    IN  IF trade_type = "Buy"
          THEN rounded_distance \in DISTANCE_FILTERS_buy
          ELSE rounded_distance \in DISTANCE_FILTERS_sell

get_trade_type(c) == IF c.close > c.open THEN "Buy" ELSE "Sell"

calculate_entry(c, trade_type) ==
    IF trade_type = "Buy" THEN c.close + ENTRY_OFFSET ELSE c.close - ENTRY_OFFSET

calculate_stop_loss(c, trade_type) ==
    IF trade_type = "Buy" THEN c.low - SL_OFFSET ELSE c.high + SL_OFFSET

(* Variant of calculate_distance without the absolute value *)
calculate_distance_signed(entry, stop_loss) == entry - stop_loss

calculate_distance(entry, stop_loss) == Abs(entry - stop_loss)

(* Variant of calculate_take_profit that puts the target above the entry   *)
(* on both sides                                                           *)
calculate_take_profit_up(entry, distance, trade_type) == entry + distance

calculate_take_profit(entry, distance, trade_type) ==
    IF trade_type = "Buy" THEN entry + distance ELSE entry - distance

(* Variant of check_trade_status that tests the take-profit before the stop-loss *)
check_trade_status_target_first(trade, c) ==
    IF trade.status # "open" THEN trade
    ELSE IF (IF trade.type = "Buy" THEN c.high >= trade.take_profit
                                   ELSE c.low <= trade.take_profit) THEN
        [trade EXCEPT !.status = "closed",
                      !.exit_price = <<trade.take_profit>>,
                      !.exit_date = c.date,
                      !.profit = trade.distance * trade.position_size,
                      !.reward_risk = "1"]
    ELSE IF (IF trade.type = "Buy" THEN c.low <= trade.stop_loss
                                   ELSE c.high >= trade.stop_loss) THEN
        [trade EXCEPT !.status = "closed",
                      !.exit_price = <<trade.stop_loss>>,
                      !.exit_date = c.date,
                      !.profit = -trade.distance * trade.position_size,
                      !.reward_risk = "0"]
    ELSE trade

(* Variant of check_trade_status that marks an untriggered position at the *)
(* candle's close                                                          *)
check_trade_status_marks(trade, c) ==
    IF trade.status # "open" THEN trade
    ELSE IF (IF trade.type = "Buy" THEN c.low <= trade.stop_loss
                                   ELSE c.high >= trade.stop_loss) THEN
        [trade EXCEPT !.status = "closed",
                      !.exit_price = <<trade.stop_loss>>,
                      !.exit_date = c.date,
                      !.profit = -trade.distance * trade.position_size,
                      !.reward_risk = "0"]
    ELSE IF (IF trade.type = "Buy" THEN c.high >= trade.take_profit
                                   ELSE c.low <= trade.take_profit) THEN
        [trade EXCEPT !.status = "closed",
                      !.exit_price = <<trade.take_profit>>,
                      !.exit_date = c.date,
                      !.profit = trade.distance * trade.position_size,
                      !.reward_risk = "1"]
    ELSE [trade EXCEPT !.exit_price = <<c.close>>]

check_trade_status(trade, c) ==
    IF trade.status # "open" THEN trade
    ELSE IF trade.type = "Buy" THEN
        IF c.low <= trade.stop_loss THEN
            [trade EXCEPT !.status = "closed",
                          !.exit_price = <<trade.stop_loss>>,
                          !.exit_date = c.date,
                          !.profit = -trade.distance * trade.position_size,
                          !.reward_risk = "0"]
        ELSE IF c.high >= trade.take_profit THEN
            [trade EXCEPT !.status = "closed",
                          !.exit_price = <<trade.take_profit>>,
                          !.exit_date = c.date,
                          !.profit = trade.distance * trade.position_size,
                          !.reward_risk = "1"]
        ELSE trade
    ELSE
        IF c.high >= trade.stop_loss THEN
            [trade EXCEPT !.status = "closed",
                          !.exit_price = <<trade.stop_loss>>,
                          !.exit_date = c.date,
                          !.profit = -trade.distance * trade.position_size,
                          !.reward_risk = "0"]
        ELSE IF c.low <= trade.take_profit THEN
            [trade EXCEPT !.status = "closed",
                          !.exit_price = <<trade.take_profit>>,
                          !.exit_date = c.date,
                          !.profit = trade.distance * trade.position_size,
                          !.reward_risk = "1"]
        ELSE trade

(* Variant of calculate_unrealized_pnl that values a Sell like a Buy *)
calculate_unrealized_pnl_as_buy(trade, current_price) ==
    IF trade.status # "open" THEN 0
    ELSE (current_price - trade.entry) * trade.position_size

calculate_unrealized_pnl(trade, current_price) ==
    IF trade.status # "open" THEN 0
    ELSE IF trade.type = "Buy"
        THEN (current_price - trade.entry) * trade.position_size
        ELSE (trade.entry - current_price) * trade.position_size

----------------------------------------------------------------------------
(* MAIN BACKTESTING ENGINE: run_backtest *)

(* The loop "for trade in open_positions": check the trade against the     *)
(* candle and, if it is closed afterwards, add its profit to capital.      *)
RECURSIVE UpdateOpenPositions(_, _, _, _)
UpdateOpenPositions(trades, cap, ops, c) ==
    IF ops = <<>> THEN [trades |-> trades, capital |-> cap]
    ELSE LET t == check_trade_status(trades[Head(ops)], c)
         IN  UpdateOpenPositions([trades EXCEPT ![Head(ops)] = t],
                                 IF t.status = "closed" THEN cap + t.profit ELSE cap,
                                 Tail(ops), c)

(* Variant of RemoveClosed that keeps the closed positions in the list *)
RemoveClosed_keep(trades, ops) == ops

(* open_positions = [t for t in open_positions if t["status"] == "open"] *)
RemoveClosed(trades, ops) == SelectSeq(ops, LAMBDA i : trades[i].status = "open")

(* sum(t["entry"] * t["position_size"] for t in open_positions) *)
RECURSIVE current_used_capital(_, _)
current_used_capital(trades, ops) ==
    IF ops = <<>> THEN 0
    ELSE trades[Head(ops)].entry * trades[Head(ops)].position_size
            + current_used_capital(trades, Tail(ops))

(* Variant of available_capital that sizes on total capital *)
available_capital_total(cap, trades, ops) == cap

available_capital(cap, trades, ops) == cap - current_used_capital(trades, ops)

(* Variant of capital_exhausted that never skips the open *)
capital_exhausted_never(available) == FALSE

(* if available_capital <= 0: continue *)
capital_exhausted(available) == available <= 0

(* (available_capital * POSITION_SIZE_PERCENT) / entry, with 0.029 = 29/1000 *)
position_size(available, entry) == (available * POSITION_SIZE_PERCENT) \div (1000 * entry)

(* The dict literal "trade = {...}" *)
TradeRecord(c, id, available) ==
    LET trade_type == get_trade_type(c)
        entry      == calculate_entry(c, trade_type)
        stop_loss  == calculate_stop_loss(c, trade_type)
        distance   == calculate_distance(entry, stop_loss)
        size       == position_size(available, entry)
    IN  [id |-> id,
         type |-> trade_type,
         entry |-> entry,
         stop_loss |-> stop_loss,
         take_profit |-> calculate_take_profit(entry, distance, trade_type),
         distance |-> distance,
         position_size |-> size,
         money_used |-> size * entry,
         open_date |-> c.date,
         status |-> "open",
         profit |-> 0,
         reward_risk |-> "None",
         exit_price |-> <<>>,
         exit_date |-> 0]

(* Variant of NewTrade that tests the new position against its opening candle *)
NewTrade_checked(c, id, available) ==
    check_trade_status(TradeRecord(c, id, available), c)

(* The trade appended to open_positions and all_trades *)
NewTrade(c, id, available) == TradeRecord(c, id, available)

(* No trades file has been handed to the drawdown analyzers *)
AnalyzersIdle ==
    /\ reward_risk = <<>>
    /\ lp_pc = "idle"
    /\ lp_level = 0
    /\ lp_results = <<>>
    /\ zc_pc = "idle"
    /\ zc_level = 0
    /\ zc_results = <<>>
    /\ next_sl_idx = <<>>
    /\ rp_pc = "idle"
    /\ rp_level = 0
    /\ rp_results = <<>>

(* backtest_candle_strategy has not been called *)
StrategyIdle ==
    /\ cs_pc = "idle"
    /\ data = <<>>
    /\ cs_i = 0
    /\ cs_trades = <<>>
    /\ end_of_data_closes = 0

(* No scoring function has been called *)
ScoringIdle ==
    /\ trades_df = <<>>
    /\ rr_threshold = 0
    /\ list_score = <<>>
    /\ net_score = <<>>
    /\ max_losing_streak = <<>>

Init ==
    /\ AnalyzersIdle
    /\ StrategyIdle
    /\ ScoringIdle
    /\ pc = "loop"
    /\ idx = 0
    /\ candle = NoCandle
    /\ capital = InitialCapitalUnits
    /\ all_trades = <<>>
    /\ open_positions = <<>>
    /\ total_trades_filtered = 0
    /\ final_capital = 0
    /\ total_trades_opened = 0
    /\ csv_data = <<>>
    /\ in_order = TRUE

(* Variant of is_excluded_time that never skips *)
is_excluded_time_never(c) == FALSE

(* if candle["time"] == CONFIG["EXCLUDED_TIME"]: continue *)
is_excluded_time(c) == c.time = EXCLUDED_TIME

(* One iteration of "for idx, candle in candles_df.iterrows()", on a row   *)
(* with the given date                                                     *)
CandleStep(shape, date) ==
    /\ pc = "loop"
    /\ idx < MaxCandles
    /\ in_order' = (in_order /\ date >= candle.date)
    /\ LET c          == Row(shape, date)
           upd        == UpdateOpenPositions(all_trades, capital, open_positions, c)
           still_open == RemoveClosed(upd.trades, open_positions)
           trade_type == get_trade_type(c)
           entry      == calculate_entry(c, trade_type)
           distance   == calculate_distance(entry, calculate_stop_loss(c, trade_type))
           available  == available_capital(upd.capital, upd.trades, still_open)
           id         == total_trades_opened + 1
       IN  /\ idx' = idx + 1
           /\ candle' = c
           /\ capital' = upd.capital
           /\ IF is_excluded_time(c) THEN
                  /\ all_trades' = upd.trades
                  /\ open_positions' = still_open
                  /\ UNCHANGED <<total_trades_filtered, total_trades_opened>>
              ELSE IF is_distance_filtered(distance, trade_type) THEN
                  /\ all_trades' = upd.trades
                  /\ open_positions' = still_open
                  /\ total_trades_filtered' = total_trades_filtered + 1
                  /\ UNCHANGED total_trades_opened
              ELSE IF capital_exhausted(available) THEN
                  /\ all_trades' = upd.trades
                  /\ open_positions' = still_open
                  /\ UNCHANGED <<total_trades_filtered, total_trades_opened>>
              ELSE
                  /\ all_trades' = Append(upd.trades, NewTrade(c, id, available))
                  /\ open_positions' = Append(still_open, id)
                  /\ total_trades_opened' = total_trades_opened + 1
                  /\ UNCHANGED total_trades_filtered
    /\ UNCHANGED <<pc, final_capital, csv_data>>
    /\ UNCHANGED analyzer_vars
    /\ UNCHANGED <<strategy_vars, scoring_vars>>

RECURSIVE unrealized_pnl(_, _, _)
unrealized_pnl(trades, ops, price) ==
    IF ops = <<>> THEN 0
    ELSE calculate_unrealized_pnl(trades[Head(ops)], price)
            + unrealized_pnl(trades, Tail(ops), price)

(* Variant of MarkRemaining that leaves the open positions unmarked *)
MarkRemaining_none(trades, last_candle) == trades

(* "Mark remaining open positions": the loop over all_trades after the candle loop *)
MarkRemaining(trades, last_candle) ==
    [i \in DOMAIN trades |->
        IF trades[i].status = "open"
          THEN [trades[i] EXCEPT !.reward_risk = "SL",
                                 !.exit_price = <<last_candle.close>>,
                                 !.exit_date = last_candle.date,
                                 !.profit = calculate_unrealized_pnl(trades[i], last_candle.close)]
          ELSE trades[i]]

(* One row of csv_data.  Kept: the open date, the side, the prices (which *)
(* have one decimal, so round(x, 2) leaves them as they are) and the       *)
(* reward_risk column; the money columns are not kept.                     *)
csv_row(trade) ==
    [date |-> trade.open_date,
     type |-> trade.type,
     entry |-> trade.entry,
     stop_loss |-> trade.stop_loss,
     distance |-> trade.distance,
     reward_risk |-> IF trade.reward_risk = "None" THEN "SL" ELSE trade.reward_risk]

(* Variant of csv_rows that emits the rows in reverse *)
csv_rows_reversed(trades) ==
    [k \in DOMAIN trades |-> csv_row(trades[Len(trades) + 1 - k])]

(* Variant of csv_rows that emits only the positions closed by stop or target *)
csv_rows_closed_only(trades) ==
    LET closed == SelectSeq(trades, LAMBDA t : t.status = "closed")
    IN  [k \in DOMAIN closed |-> csv_row(closed[k])]

(* csv_data: "for trade in all_trades: csv_data.append({...})" *)
csv_rows(trades) == [k \in DOMAIN trades |-> csv_row(trades[k])]

(* The code after the candle loop: final capital, the end-of-data marks    *)
(* and the rows of the output file                                         *)
Finish ==
    /\ pc = "loop"
    /\ idx >= 1
    /\ final_capital' = capital + unrealized_pnl(all_trades, open_positions, candle.close)
    /\ all_trades' = MarkRemaining(all_trades, candle)
    /\ csv_data' = csv_rows(all_trades')
    /\ pc' = "done"
    /\ UNCHANGED <<idx, candle, capital, open_positions, total_trades_filtered,
                   total_trades_opened, in_order>>
    /\ UNCHANGED analyzer_vars
    /\ UNCHANGED <<strategy_vars, scoring_vars>>

(* candles_df in time order: the date of a row is its position *)
Next ==
    \/ \E shape \in Candles : CandleStep(shape, idx + 1)
    \/ Finish

Spec == Init /\ [][Next]_vars

(* candles_df as read from the file, in file order: the dates of the rows  *)
(* are whatever the file holds                                             *)
MaxDate == 3

Dates == 1..MaxDate

FileCandles ==
    { [time |-> "05:30", open |-> s[1], high |-> s[2], low |-> s[3], close |-> s[4]] :
        s \in { <<196, 202, 196, 202>>, <<212, 212, 200, 200>>, <<200, 214, 182, 200>> } }

NextFileOrder ==
    \/ \E shape \in FileCandles, date \in Dates : CandleStep(shape, date)
    \/ Finish

SpecFileOrder == Init /\ [][NextFileOrder]_vars

----------------------------------------------------------------------------
(* Drawdown analyzers: calculate_lowest_drawdown of src/New folder/main.py *)
(* (candidate starts = the loss positions) and of                          *)
(* src/calculate_lowest_drawdown.py (candidate starts = the zero           *)
(* crossings).  Indices are Python's, the first trade has index 0.  A      *)
(* reward/risk value is an integer number of hundredths, a cumulative sum  *)
(* of mapped values an integer.                                            *)

MaxTrades == 5

(* The spellings of reward_risk a trades file holds *)
RewardRisks == {"SL", "0", "1", "1.5", "2", "3"}

TradeFiles == UNION { [1..n -> RewardRisks] : n \in 0..MaxTrades }

(* float(rr), in hundredths *)
float(rr) ==
    CASE rr = "0"   -> 0
      [] rr = "1"   -> 100
      [] rr = "1.5" -> 150
      [] rr = "2"   -> 200
      [] rr = "3"   -> 300

(* return 0.0 if rr == "SL" else float(rr) *)
convert_to_numeric(rr) == IF rr = "SL" THEN 0 ELSE float(rr)

(* trades["reward_risk"].apply(convert_to_numeric).values *)
rr_values(column) == [i \in 1..Len(column) |-> convert_to_numeric(column[i])]

(* np.where(rr_values == 0)[0]: the indices holding 0, ascending *)
RECURSIVE where_zero(_, _)
where_zero(rrv, i) ==
    IF i >= Len(rrv) THEN <<>>
    ELSE IF rrv[i + 1] = 0 THEN <<i>> \o where_zero(rrv, i + 1)
    ELSE where_zero(rrv, i + 1)

sl_positions(rrv) == where_zero(rrv, 0)

RECURSIVE np_max(_)
np_max(a) ==
    IF Len(a) = 1 THEN a[1]
    ELSE LET m == np_max(Tail(a)) IN IF a[1] > m THEN a[1] ELSE m

(* int(np.max(rr_values)): the fraction is cut off *)
max_reward(rrv) == np_max(rrv) \div 100

(* Variant of the mapping that counts a multiple equal to the level as a loss *)
values_above(rrv, reward_level) ==
    [i \in 1..Len(rrv) |-> IF rrv[i] > reward_level * 100 THEN reward_level ELSE -1]

(* values = np.where(rr_values >= reward_level, reward_level, -1) *)
values(rrv, reward_level) ==
    [i \in 1..Len(rrv) |-> IF rrv[i] >= reward_level * 100 THEN reward_level ELSE -1]

(* values[start_idx:] *)
segment_values(vals, start_idx) == SubSeq(vals, start_idx + 1, Len(vals))

RECURSIVE np_cumsum(_)
np_cumsum(a) ==
    IF a = <<>> THEN <<>>
    ELSE LET c == np_cumsum(SubSeq(a, 1, Len(a) - 1))
         IN  Append(c, (IF c = <<>> THEN 0 ELSE c[Len(c)]) + a[Len(a)])

np_minimum(a, b) == [i \in 1..Len(a) |-> IF a[i] < b THEN a[i] ELSE b]

RECURSIVE np_min(_)
np_min(a) ==
    IF Len(a) = 1 THEN a[1]
    ELSE LET m == np_min(Tail(a)) IN IF a[1] < m THEN a[1] ELSE m

(* lowest_in_this_run = np.min(np.minimum(segment_cumsum, 0)) *)
lowest_in_this_run(vals, start_idx) ==
    np_min(np_minimum(np_cumsum(segment_values(vals, start_idx)), 0))

(* float('inf'): above every cumulative sum the analyzer can form *)
inf == 1000

(* Variant of the loop over the starts that lets a later start win a tie *)
RECURSIVE test_sl_positions_last(_, _, _, _)
test_sl_positions_last(vals, starts, absolute_lowest, best_starting_position) ==
    IF starts = <<>>
    THEN [absolute_lowest |-> absolute_lowest,
          best_starting_position |-> best_starting_position]
    ELSE LET start_idx == Head(starts)
             lowest == lowest_in_this_run(vals, start_idx)
         IN  IF lowest <= absolute_lowest
             THEN test_sl_positions_last(vals, Tail(starts), lowest, <<start_idx>>)
             ELSE test_sl_positions_last(vals, Tail(starts), absolute_lowest,
                                         best_starting_position)

(* for start_idx in sl_positions: ... if lowest_in_this_run <              *)
(* absolute_lowest: ...; best_starting_position is <<>> while it is None   *)
RECURSIVE test_sl_positions(_, _, _, _)
test_sl_positions(vals, starts, absolute_lowest, best_starting_position) ==
    IF starts = <<>>
    THEN [absolute_lowest |-> absolute_lowest,
          best_starting_position |-> best_starting_position]
    ELSE LET start_idx == Head(starts)
             lowest == lowest_in_this_run(vals, start_idx)
         IN  IF lowest < absolute_lowest
             THEN test_sl_positions(vals, Tail(starts), lowest, <<start_idx>>)
             ELSE test_sl_positions(vals, Tail(starts), absolute_lowest,
                                    best_starting_position)

(* Variant of the result row that reports the drawdown as a magnitude *)
loss_positions_result_magnitude(rrv, reward_level) ==
    LET run == test_sl_positions(values(rrv, reward_level), sl_positions(rrv), inf, <<>>)
    IN  [Reward_Level |-> reward_level,
         Absolute_Lowest |-> 0 - run.absolute_lowest,
         Starting_Position |-> run.best_starting_position]

(* The row appended to results for one reward level; int(absolute_lowest)  *)
(* is exact, the sums being integers                                       *)
loss_positions_result(rrv, reward_level) ==
    LET run == test_sl_positions(values(rrv, reward_level), sl_positions(rrv), inf, <<>>)
    IN  [Reward_Level |-> reward_level,
         Absolute_Lowest |-> run.absolute_lowest,
         Starting_Position |-> run.best_starting_position]

(* Variant of the start that saves an empty result file when the column    *)
(* holds no loss                                                           *)
LossPositionsStart_saves ==
    /\ lp_pc = "start"
    /\ IF sl_positions(rr_values(reward_risk)) = <<>>
       THEN lp_pc' = "saved" /\ UNCHANGED lp_level
       ELSE lp_pc' = "levels" /\ lp_level' = 1
    /\ UNCHANGED <<reward_risk, lp_results, zc_pc, zc_level, zc_results, next_sl_idx>>
    /\ UNCHANGED report_vars
    /\ UNCHANGED simulator_vars
    /\ UNCHANGED <<strategy_vars, scoring_vars>>

(* New folder/main.py, up to the reward levels: the early return when the  *)
(* file holds no loss                                                      *)
LossPositionsStart ==
    /\ lp_pc = "start"
    /\ IF sl_positions(rr_values(reward_risk)) = <<>>
       THEN lp_pc' = "returned" /\ UNCHANGED lp_level
       ELSE lp_pc' = "levels" /\ lp_level' = 1
    /\ UNCHANGED <<reward_risk, lp_results, zc_pc, zc_level, zc_results, next_sl_idx>>
    /\ UNCHANGED report_vars
    /\ UNCHANGED simulator_vars
    /\ UNCHANGED <<strategy_vars, scoring_vars>>

(* New folder/main.py: one iteration of for reward_level in reward_levels *)
LossPositionsLevel ==
    /\ lp_pc = "levels"
    /\ lp_level <= max_reward(rr_values(reward_risk))
    /\ lp_results' = Append(lp_results,
                            loss_positions_result(rr_values(reward_risk), lp_level))
    /\ lp_level' = lp_level + 1
    /\ UNCHANGED <<reward_risk, lp_pc, zc_pc, zc_level, zc_results, next_sl_idx>>
    /\ UNCHANGED report_vars
    /\ UNCHANGED simulator_vars
    /\ UNCHANGED <<strategy_vars, scoring_vars>>

(* New folder/main.py: results_df.to_csv after the last reward level *)
LossPositionsSave ==
    /\ lp_pc = "levels"
    /\ lp_level > max_reward(rr_values(reward_risk))
    /\ lp_pc' = "saved"
    /\ UNCHANGED <<reward_risk, lp_level, lp_results, zc_pc, zc_level, zc_results,
                   next_sl_idx>>
    /\ UNCHANGED report_vars
    /\ UNCHANGED simulator_vars
    /\ UNCHANGED <<strategy_vars, scoring_vars>>

(* calculate_lowest_drawdown.py: for j in range(i + 1, len(trades)): if    *)
(* trades.iloc[j]["reward_risk"] == "SL": next_sl_idx = j; break.  The     *)
(* result is <<j>>, or <<>> when the loop ends without an assignment       *)
RECURSIVE find_next_sl(_, _)
find_next_sl(column, j) ==
    IF j >= Len(column) THEN <<>>
    ELSE IF column[j + 1] = "SL" THEN <<j>>
    ELSE find_next_sl(column, j + 1)

(* PHASE 1, from index i on.  st holds running_total, lowest_overall,      *)
(* zero_crossing_positions and next_sl_idx; next_sl_idx is a local of the  *)
(* function that no statement initialises, so it is <<>> (unbound) until   *)
(* the first assignment and keeps its last value afterwards; reading it    *)
(* unbound raises UnboundLocalError (st.raised)                            *)
RECURSIVE initial_pass(_, _, _, _)
initial_pass(column, reward_level, i, st) ==
    IF i >= Len(column) \/ st.raised THEN st
    ELSE LET rr_value == convert_to_numeric(column[i + 1])
             running_total == st.running_total
                              + (IF rr_value >= reward_level * 100
                                 THEN reward_level ELSE -1)
             lowest_overall == IF running_total < st.lowest_overall
                               THEN running_total ELSE st.lowest_overall
             found == find_next_sl(column, i + 1)
             bound == IF running_total = 0 /\ found # <<>>
                      THEN found ELSE st.next_sl_idx
         IN  initial_pass(column, reward_level, i + 1,
                 [running_total |-> running_total,
                  lowest_overall |-> lowest_overall,
                  zero_crossing_positions |->
                      IF running_total = 0 /\ bound # <<>>
                      THEN Append(st.zero_crossing_positions, bound[1])
                      ELSE st.zero_crossing_positions,
                  next_sl_idx |-> bound,
                  raised |-> (running_total = 0 /\ bound = <<>>)])

(* Variant of the forward scan that compares the low-water mark with the   *)
(* running total of the previous trade                                     *)
RECURSIVE forward_scan_stale(_, _, _, _, _)
forward_scan_stale(rrv, reward_level, i, running_total, lowest) ==
    IF i >= Len(rrv) THEN lowest
    ELSE LET total == running_total
                      + (IF rrv[i + 1] >= reward_level * 100 THEN reward_level ELSE -1)
         IN  forward_scan_stale(rrv, reward_level, i + 1, total,
                                IF running_total < lowest THEN running_total ELSE lowest)

(* PHASE 2, the scan of one start: for i in range(start_idx, len(trades))  *)
(* with running_total = 0 and lowest_in_this_run = 0 before the loop       *)
RECURSIVE forward_scan(_, _, _, _, _)
forward_scan(rrv, reward_level, i, running_total, lowest) ==
    IF i >= Len(rrv) THEN lowest
    ELSE LET total == running_total
                      + (IF rrv[i + 1] >= reward_level * 100 THEN reward_level ELSE -1)
         IN  forward_scan(rrv, reward_level, i + 1, total,
                          IF total < lowest THEN total ELSE lowest)

(* PHASE 2, the loop over zero_crossing_positions *)
RECURSIVE test_zero_crossings(_, _, _, _, _)
test_zero_crossings(rrv, reward_level, starts, lowest_overall, best_starting_position) ==
    IF starts = <<>>
    THEN [lowest_overall |-> lowest_overall,
          best_starting_position |-> best_starting_position]
    ELSE LET start_idx == Head(starts)
             lowest == forward_scan(rrv, reward_level, start_idx, 0, 0)
         IN  IF lowest < lowest_overall
             THEN test_zero_crossings(rrv, reward_level, Tail(starts), lowest, start_idx)
             ELSE test_zero_crossings(rrv, reward_level, Tail(starts), lowest_overall,
                                      best_starting_position)

(* The state of PHASE 1 before its loop *)
initial_pass_start(carried) ==
    [running_total |-> 0, lowest_overall |-> 0, zero_crossing_positions |-> <<>>,
     next_sl_idx |-> carried, raised |-> FALSE]

(* The row appended to results for one reward level, given PHASE 1 *)
zero_crossing_result(column, reward_level, phase1) ==
    LET run == test_zero_crossings(rr_values(column), reward_level,
                                   phase1.zero_crossing_positions,
                                   phase1.lowest_overall, 0)
    IN  [Reward_Level |-> reward_level,
         Absolute_Lowest |-> run.lowest_overall,
         Starting_Position |-> run.best_starting_position,
         Zero_Crossings |-> Len(phase1.zero_crossing_positions),
         zero_crossing_positions |-> phase1.zero_crossing_positions]

(* calculate_lowest_drawdown.py, up to the reward levels; the maximum of   *)
(* an empty column is nan and int(nan) raises ValueError                   *)
ZeroCrossingStart ==
    /\ zc_pc = "start"
    /\ IF reward_risk = <<>>
       THEN zc_pc' = "ValueError" /\ UNCHANGED zc_level
       ELSE zc_pc' = "levels" /\ zc_level' = 1
    /\ UNCHANGED <<reward_risk, lp_pc, lp_level, lp_results, zc_results, next_sl_idx>>
    /\ UNCHANGED report_vars
    /\ UNCHANGED simulator_vars
    /\ UNCHANGED <<strategy_vars, scoring_vars>>

(* calculate_lowest_drawdown.py: one iteration of the loop over            *)
(* reward_levels                                                           *)
ZeroCrossingLevel ==
    /\ zc_pc = "levels"
    /\ zc_level <= max_reward(rr_values(reward_risk))
    /\ LET phase1 == initial_pass(reward_risk, zc_level, 0,
                                  initial_pass_start(next_sl_idx))
       IN  /\ next_sl_idx' = phase1.next_sl_idx
           /\ IF phase1.raised
              THEN /\ zc_pc' = "UnboundLocalError"
                   /\ UNCHANGED <<zc_level, zc_results>>
              ELSE /\ zc_results' = Append(zc_results,
                                           zero_crossing_result(reward_risk, zc_level, phase1))
                   /\ zc_level' = zc_level + 1
                   /\ UNCHANGED zc_pc
    /\ UNCHANGED <<reward_risk, lp_pc, lp_level, lp_results>>
    /\ UNCHANGED report_vars
    /\ UNCHANGED simulator_vars
    /\ UNCHANGED <<strategy_vars, scoring_vars>>

(* calculate_lowest_drawdown.py: results_df.to_csv after the last level *)
ZeroCrossingSave ==
    /\ zc_pc = "levels"
    /\ zc_level > max_reward(rr_values(reward_risk))
    /\ zc_pc' = "saved"
    /\ UNCHANGED <<reward_risk, lp_pc, lp_level, lp_results, zc_level, zc_results,
                   next_sl_idx>>
    /\ UNCHANGED report_vars
    /\ UNCHANGED simulator_vars
    /\ UNCHANGED <<strategy_vars, scoring_vars>>

(* create_detailed_report, Phase 1 from index i on: the index where the    *)
(* running total is 0 is itself recorded                                   *)
RECURSIVE report_initial_pass(_, _, _, _)
report_initial_pass(column, reward_level, i, st) ==
    IF i >= Len(column) THEN st
    ELSE LET rr_value == convert_to_numeric(column[i + 1])
             running_total == st.running_total
                              + (IF rr_value >= reward_level * 100
                                 THEN reward_level ELSE -1)
             lowest_overall == IF running_total < st.lowest_overall
                               THEN running_total ELSE st.lowest_overall
         IN  report_initial_pass(column, reward_level, i + 1,
                 [running_total |-> running_total,
                  lowest_overall |-> lowest_overall,
                  zero_crossing_positions |->
                      IF running_total = 0
                      THEN Append(st.zero_crossing_positions, i)
                      ELSE st.zero_crossing_positions])

(* create_detailed_report: the figures written for one reward level; its   *)
(* Phase 2 repeats the loop of calculate_lowest_drawdown statement by      *)
(* statement                                                               *)
report_result(column, reward_level) ==
    LET phase1 == report_initial_pass(column, reward_level, 0,
                      [running_total |-> 0, lowest_overall |-> 0,
                       zero_crossing_positions |-> <<>>])
        run == test_zero_crossings(rr_values(column), reward_level,
                                   phase1.zero_crossing_positions,
                                   phase1.lowest_overall, 0)
    IN  [Reward_Level |-> reward_level,
         Absolute_Lowest |-> run.lowest_overall,
         Starting_Position |-> run.best_starting_position,
         Zero_Crossings |-> Len(phase1.zero_crossing_positions)]

(* __main__ of calculate_lowest_drawdown.py calls create_detailed_report   *)
(* once calculate_lowest_drawdown has returned                             *)
ReportStart ==
    /\ zc_pc = "saved"
    /\ rp_pc = "idle"
    /\ IF reward_risk = <<>>
       THEN rp_pc' = "ValueError" /\ UNCHANGED rp_level
       ELSE rp_pc' = "levels" /\ rp_level' = 1
    /\ UNCHANGED <<reward_risk, lp_pc, lp_level, lp_results, zc_pc, zc_level,
                   zc_results, next_sl_idx, rp_results>>
    /\ UNCHANGED simulator_vars
    /\ UNCHANGED <<strategy_vars, scoring_vars>>

(* create_detailed_report: one iteration of the loop over reward_levels *)
ReportLevel ==
    /\ rp_pc = "levels"
    /\ rp_level <= max_reward(rr_values(reward_risk))
    /\ rp_results' = Append(rp_results, report_result(reward_risk, rp_level))
    /\ rp_level' = rp_level + 1
    /\ UNCHANGED <<reward_risk, lp_pc, lp_level, lp_results, zc_pc, zc_level,
                   zc_results, next_sl_idx, rp_pc>>
    /\ UNCHANGED simulator_vars
    /\ UNCHANGED <<strategy_vars, scoring_vars>>

(* create_detailed_report: the report file is written *)
ReportSave ==
    /\ rp_pc = "levels"
    /\ rp_level > max_reward(rr_values(reward_risk))
    /\ rp_pc' = "saved"
    /\ UNCHANGED <<reward_risk, lp_pc, lp_level, lp_results, zc_pc, zc_level,
                   zc_results, next_sl_idx, rp_level, rp_results>>
    /\ UNCHANGED simulator_vars
    /\ UNCHANGED <<strategy_vars, scoring_vars>>

(* One of the two analyzer scripts is run on a trades file *)
InitDrawdown ==
    /\ pc = "loop"
    /\ idx = 0
    /\ candle = NoCandle
    /\ capital = InitialCapitalUnits
    /\ all_trades = <<>>
    /\ open_positions = <<>>
    /\ total_trades_filtered = 0
    /\ final_capital = 0
    /\ total_trades_opened = 0
    /\ csv_data = <<>>
    /\ in_order = TRUE
    /\ StrategyIdle
    /\ ScoringIdle
    /\ reward_risk \in TradeFiles
    /\ \/ lp_pc = "start" /\ zc_pc = "idle"
       \/ lp_pc = "idle" /\ zc_pc = "start"
    /\ lp_level = 0
    /\ lp_results = <<>>
    /\ zc_level = 0
    /\ zc_results = <<>>
    /\ next_sl_idx = <<>>
    /\ rp_pc = "idle"
    /\ rp_level = 0
    /\ rp_results = <<>>

NextDrawdown ==
    \/ LossPositionsStart
    \/ LossPositionsLevel
    \/ LossPositionsSave
    \/ ZeroCrossingStart
    \/ ZeroCrossingLevel
    \/ ZeroCrossingSave
    \/ ReportStart
    \/ ReportLevel
    \/ ReportSave

SpecDrawdown == InitDrawdown /\ [][NextDrawdown]_vars

----------------------------------------------------------------------------
(* backtest_candle_strategy of src/main.py: one trade per non-doji candle, *)
(* followed forward until its stop-loss is hit or the data ends.  Prices   *)
(* are in tenths of a USD, the offsets 0.2 are 2; a reward/risk value is   *)
(* an integer number of hundredths.  The datetime of a row is its position *)
(* in data, which main.py sorts by datetime before the call.               *)

MaxRows == 4

StrategyCandles ==
    { [open |-> s[1], high |-> s[2], low |-> s[3], close |-> s[4]] :
        s \in { <<196, 202, 196, 202>>, <<212, 212, 200, 200>>,
                <<200, 220, 190, 200>>, <<204, 216, 204, 214>> } }

DataSets == UNION { [1..n -> StrategyCandles] : n \in 0..MaxRows }

(* entry_offset=0.2, stop_offset=0.2 *)
entry_offset == 2

stop_offset == 2

Max(a, b) == IF a > b THEN a ELSE b

(* round(reward_risk_value, 2) of max_profit / distance, in hundredths *)
round_reward_risk(max_profit, distance) ==
    (200 * max_profit + distance) \div (2 * distance)

(* The state of a trade before the forward loop *)
forward_start ==
    [max_profit |-> 0, candles_held |-> 0, close_reason |-> "Stop Loss",
     stop_hit |-> FALSE, reached_end |-> FALSE]

(* for j in range(i + 1, len(data)): max_profit is updated, then the stop  *)
(* is tested, then the end of the data                                     *)
RECURSIVE forward(_, _, _, _, _, _)
forward(rows, j, trade_type, entry, stop_loss, st) ==
    IF j >= Len(rows) THEN st
    ELSE LET future == rows[j + 1]
             is_last_candle == (j = Len(rows) - 1)
             current_profit == IF trade_type = "Buy" THEN future.high - entry
                               ELSE entry - future.low
             stopped == IF trade_type = "Buy" THEN future.low <= stop_loss
                        ELSE future.high >= stop_loss
             tracked == [st EXCEPT !.candles_held = st.candles_held + 1,
                                   !.max_profit = Max(st.max_profit, current_profit)]
         IN  IF stopped
             THEN [tracked EXCEPT !.stop_hit = TRUE, !.close_reason = "Stop Loss"]
             ELSE IF is_last_candle
             THEN [tracked EXCEPT !.close_reason = "End of Data", !.reached_end = TRUE]
             ELSE forward(rows, j + 1, trade_type, entry, stop_loss, tracked)

(* The dict appended to trades for row i; reward_risk is <<>> for "SL" and *)
(* <<value>> otherwise.  The prices lie on the 0.1 grid, where round(x, 2) *)
(* returns the grid value                                                  *)
strategy_trade(rows, i, trade_type) ==
    LET c == rows[i + 1]
        entry == IF trade_type = "Buy" THEN c.close + entry_offset
                 ELSE c.close - entry_offset
        stop_loss == IF trade_type = "Buy" THEN c.low - stop_offset
                     ELSE c.high + stop_offset
        distance == Abs(entry - stop_loss)
        run == forward(rows, i + 1, trade_type, entry, stop_loss, forward_start)
    IN  [datetime |-> i,
         type |-> trade_type,
         entry |-> entry,
         stop_loss |-> stop_loss,
         distance |-> distance,
         max_profit |-> run.max_profit,
         reward_risk |-> IF distance # 0
                         THEN IF run.max_profit < distance THEN <<>>
                              ELSE <<round_reward_risk(run.max_profit, distance)>>
                         ELSE <<>>,
         candles_held |-> run.candles_held,
         close_reason |-> run.close_reason,
         reached_end |-> run.reached_end]

(* One iteration of for i in range(len(data) - 1) *)
StrategyStep ==
    /\ cs_pc = "loop"
    /\ cs_i < Len(data) - 1
    /\ LET c == data[cs_i + 1]
       IN  IF c.close = c.open
           THEN UNCHANGED <<cs_trades, end_of_data_closes>>
           ELSE LET t == strategy_trade(data, cs_i,
                                        IF c.close > c.open THEN "Buy" ELSE "Sell")
                IN  /\ cs_trades' = Append(cs_trades, t)
                    /\ end_of_data_closes' =
                           end_of_data_closes + (IF t.reached_end THEN 1 ELSE 0)
    /\ cs_i' = cs_i + 1
    /\ UNCHANGED <<cs_pc, data>>
    /\ UNCHANGED <<simulator_vars, analyzer_vars, scoring_vars>>

(* return pd.DataFrame(trades), end_of_data_closes *)
StrategyReturn ==
    /\ cs_pc = "loop"
    /\ cs_i >= Len(data) - 1
    /\ cs_pc' = "returned"
    /\ UNCHANGED <<data, cs_i, cs_trades, end_of_data_closes>>
    /\ UNCHANGED <<simulator_vars, analyzer_vars, scoring_vars>>

InitStrategy ==
    /\ pc = "loop"
    /\ idx = 0
    /\ candle = NoCandle
    /\ capital = InitialCapitalUnits
    /\ all_trades = <<>>
    /\ open_positions = <<>>
    /\ total_trades_filtered = 0
    /\ final_capital = 0
    /\ total_trades_opened = 0
    /\ csv_data = <<>>
    /\ in_order = TRUE
    /\ AnalyzersIdle
    /\ ScoringIdle
    /\ cs_pc = "loop"
    /\ data \in DataSets
    /\ cs_i = 0
    /\ cs_trades = <<>>
    /\ end_of_data_closes = 0

NextStrategy ==
    \/ StrategyStep
    \/ StrategyReturn

SpecStrategy == InitStrategy /\ [][NextStrategy]_vars

----------------------------------------------------------------------------
(* The scoring functions of src/filterAndRemoveTradesBasedOnVersion2.py    *)
(* and src/extract_metrics.py, each applied to the reward_risk column of a *)
(* trades file at a threshold.  A score is a whole number; the net score,  *)
(* which subtracts total_trades / 10, is in tenths.                        *)

MaxScored == 3

ScoredFiles == UNION { [1..n -> RewardRisks] : n \in 0..MaxScored }

(* The thresholds of the rr_threshold_X folders *)
ScoringThresholds == 1..3

(* for rr in trades_df["reward_risk"]: "SL" subtracts 1, a value above the *)
(* threshold adds the threshold, any other value subtracts 1               *)
RECURSIVE raw_score(_, _)
raw_score(column, threshold) ==
    IF column = <<>> THEN 0
    ELSE LET rr == Head(column)
             step == IF rr = "SL" THEN -1
                     ELSE IF float(rr) > threshold * 100 THEN threshold
                     ELSE -1
         IN  step + raw_score(Tail(column), threshold)

(* calculate_list_score: the score less math.floor(trade_count / 20) *)
calculate_list_score(column, threshold) ==
    raw_score(column, threshold) - (Len(column) \div 20)

(* calculate_net_score: score - (total_trades / 10), in tenths *)
calculate_net_score(column, threshold, total_trades) ==
    10 * raw_score(column, threshold) - total_trades

(* The loop of calculate_max_losing_streak over column[k..]; st holds      *)
(* max_streak and current_streak                                           *)
RECURSIVE losing_streak_loop(_, _, _, _)
losing_streak_loop(column, threshold, k, st) ==
    IF k > Len(column) THEN st
    ELSE LET rr == column[k]
             next == IF rr = "SL"
                     THEN [st EXCEPT !.current_streak = st.current_streak + 1]
                     ELSE IF float(rr) < threshold * 100
                     THEN [st EXCEPT !.current_streak = st.current_streak + 1]
                     ELSE [max_streak |-> Max(st.max_streak, st.current_streak),
                           current_streak |-> 0]
         IN  losing_streak_loop(column, threshold, k + 1, next)

(* calculate_max_losing_streak *)
calculate_max_losing_streak(column, threshold) ==
    LET st == losing_streak_loop(column, threshold, 1,
                                 [max_streak |-> 0, current_streak |-> 0])
    IN  Max(st.max_streak, st.current_streak)

(* score = calculate_list_score(trades_df, rr_threshold) *)
ListScore ==
    /\ list_score = <<>>
    /\ list_score' = <<calculate_list_score(trades_df, rr_threshold)>>
    /\ UNCHANGED <<trades_df, rr_threshold, net_score, max_losing_streak>>
    /\ UNCHANGED <<simulator_vars, analyzer_vars, strategy_vars>>

(* net_score = calculate_net_score(trades_df, rr_threshold, total_trades), *)
(* for a file that is not empty                                            *)
NetScore ==
    /\ trades_df # <<>>
    /\ net_score = <<>>
    /\ net_score' = <<calculate_net_score(trades_df, rr_threshold, Len(trades_df))>>
    /\ UNCHANGED <<trades_df, rr_threshold, list_score, max_losing_streak>>
    /\ UNCHANGED <<simulator_vars, analyzer_vars, strategy_vars>>

(* max_losing_streak = calculate_max_losing_streak(trades_df, rr_threshold) *)
MaxLosingStreak ==
    /\ trades_df # <<>>
    /\ net_score # <<>>
    /\ max_losing_streak = <<>>
    /\ max_losing_streak' = <<calculate_max_losing_streak(trades_df, rr_threshold)>>
    /\ UNCHANGED <<trades_df, rr_threshold, list_score, net_score>>
    /\ UNCHANGED <<simulator_vars, analyzer_vars, strategy_vars>>

InitScoring ==
    /\ pc = "loop"
    /\ idx = 0
    /\ candle = NoCandle
    /\ capital = InitialCapitalUnits
    /\ all_trades = <<>>
    /\ open_positions = <<>>
    /\ total_trades_filtered = 0
    /\ final_capital = 0
    /\ total_trades_opened = 0
    /\ csv_data = <<>>
    /\ in_order = TRUE
    /\ AnalyzersIdle
    /\ StrategyIdle
    /\ trades_df \in ScoredFiles
    /\ rr_threshold \in ScoringThresholds
    /\ list_score = <<>>
    /\ net_score = <<>>
    /\ max_losing_streak = <<>>

NextScoring ==
    \/ ListScore
    \/ NetScore
    \/ MaxLosingStreak

SpecScoring == InitScoring /\ [][NextScoring]_vars

----------------------------------------------------------------------------

(* Vocabulary of the properties *)

TradeIds == DOMAIN all_trades

RECURSIVE SumSeq(_)
SumSeq(q) == IF q = <<>> THEN 0 ELSE Head(q) + SumSeq(Tail(q))

(* The candle reaches the stop-loss / the take-profit of the position *)
StopReached(t, c) ==
    IF t.type = "Buy" THEN c.low <= t.stop_loss ELSE c.high >= t.stop_loss

TargetReached(t, c) ==
    IF t.type = "Buy" THEN c.high >= t.take_profit ELSE c.low <= t.take_profit

(* The position was opened on an earlier candle and was open when the      *)
(* current candle arrived                                                  *)
OpenBeforeCurrent(t) ==
    /\ t.open_date < candle.date
    /\ t.status = "closed" => t.exit_date = candle.date

OpenedOnCurrent(t) == t.open_date = candle.date

ClosedOnCurrent(t) == t.status = "closed" /\ t.exit_date = candle.date

ClosedAtStop(t) ==
    /\ t.status = "closed"
    /\ t.reward_risk = "0"
    /\ t.exit_price = <<t.stop_loss>>
    /\ t.profit = -(t.distance * t.position_size)
    /\ t.profit < 0

ClosedAtTarget(t) ==
    /\ t.status = "closed"
    /\ t.reward_risk = "1"
    /\ t.exit_price = <<t.take_profit>>
    /\ t.profit = t.distance * t.position_size
    /\ t.profit > 0

(* Sum of the profits of the positions closed by stop-loss or take-profit *)
RealizedProfit ==
    SumSeq([i \in TradeIds |->
              IF all_trades[i].status = "closed" THEN all_trades[i].profit ELSE 0])

(* Value at price of the positions that are still open *)
OpenValue(price) ==
    SumSeq([i \in TradeIds |->
              IF all_trades[i].status # "open" THEN 0
              ELSE IF all_trades[i].type = "Buy"
                THEN (price - all_trades[i].entry) * all_trades[i].position_size
                ELSE (all_trades[i].entry - price) * all_trades[i].position_size])

----------------------------------------------------------------------------
(* C1: a candle that reaches both the stop-loss and the take-profit of a   *)
(* position that was open when it arrived closes the position at its       *)
(* stop-loss, with a loss, never at its take-profit.                       *)
C1_StopLossPrecedence ==
    \A i \in TradeIds :
        LET t == all_trades[i]
        IN  (pc = "loop" /\ OpenBeforeCurrent(t)
                /\ StopReached(t, candle) /\ TargetReached(t, candle))
              => ClosedAtStop(t)

C1_Witness ==
    /\ pc = "loop"
    /\ \E i, j \in TradeIds :
        /\ all_trades[i].type = "Buy" /\ all_trades[j].type = "Sell"
        /\ \A k \in {i, j} :
              /\ OpenBeforeCurrent(all_trades[k])
              /\ StopReached(all_trades[k], candle)
              /\ TargetReached(all_trades[k], candle)
              /\ ClosedOnCurrent(all_trades[k])

(* C2: a position is not tested for close against the candle that opened   *)
(* it: it is open after its opening candle even when that candle reaches   *)
(* its stop or target, and a closed position was closed by a later candle. *)
C2_NoCloseOnOpeningCandle ==
    \A i \in TradeIds :
        LET t == all_trades[i]
        IN  /\ (pc = "loop" /\ OpenedOnCurrent(t))
                 => (t.status = "open" /\ t.exit_price = <<>> /\ t.profit = 0)
            /\ t.status = "closed" => t.exit_date > t.open_date

C2_Witness ==
    /\ pc = "loop"
    /\ \E i, j \in TradeIds :
        /\ OpenedOnCurrent(all_trades[i])
        /\ TargetReached(all_trades[i], candle)
        /\ all_trades[i].status = "open"
        /\ all_trades[j].status = "closed"
        /\ all_trades[j].exit_date = all_trades[j].open_date + 1

(* C3: ledger invariant: capital is the initial capital plus the profits   *)
(* of the positions closed so far, each counted once.                      *)
C3_Ledger == capital = InitialCapitalUnits + RealizedProfit

C3_Witness ==
    /\ capital # InitialCapitalUnits
    /\ \E i, j \in TradeIds :
        /\ ClosedAtStop(all_trades[i])
        /\ ClosedAtTarget(all_trades[j])
        /\ all_trades[i].exit_date < candle.date

(* C4: the final capital is the ledger capital plus the unrealized P&L, at *)
(* the last candle's close, of exactly the positions still open.           *)
C4_FinalCapital ==
    pc = "done" =>
        /\ capital = InitialCapitalUnits + RealizedProfit
        /\ final_capital = capital + OpenValue(candle.close)

C4_Witness ==
    /\ pc = "done"
    /\ final_capital # capital
    /\ \E i, j \in TradeIds :
        /\ all_trades[i].status = "closed"
        /\ all_trades[j].status = "open"
        /\ all_trades[j].type = "Sell"

(* C5: every opened position ends with exactly one exit reason: closed at  *)
(* its stop-loss with profit -distance x size < 0, closed at its           *)
(* take-profit with profit +distance x size > 0, or still open at the end  *)
(* of the data and marked at the last close.                               *)
EndOfData(t) ==
    /\ t.status = "open"
    /\ t.reward_risk = "SL"
    /\ t.exit_price = <<candle.close>>
    /\ t.exit_date = candle.date

StillOpen(t) ==
    /\ t.status = "open"
    /\ t.reward_risk = "None"
    /\ t.exit_price = <<>>
    /\ t.profit = 0

ExactlyOne(a, b, c) == (a /\ ~b /\ ~c) \/ (~a /\ b /\ ~c) \/ (~a /\ ~b /\ c)

C5_ExitReason ==
    \A i \in TradeIds :
        LET t == all_trades[i]
        IN  IF pc = "done"
              THEN ExactlyOne(ClosedAtStop(t), ClosedAtTarget(t), EndOfData(t))
              ELSE ExactlyOne(ClosedAtStop(t), ClosedAtTarget(t), StillOpen(t))

C5_Witness ==
    /\ pc = "done"
    /\ \E i, j, k \in TradeIds :
        /\ ClosedAtStop(all_trades[i]) /\ all_trades[i].type = "Sell"
        /\ ClosedAtTarget(all_trades[j]) /\ all_trades[j].type = "Sell"
        /\ EndOfData(all_trades[k])

(* C6: a candle with close = open opens no position: a position opened on  *)
(* the current candle is a Buy only if close > open and a Sell only if     *)
(* close < open.                                                           *)
C6_DojiOpensNothing ==
    \A i \in TradeIds :
        LET t == all_trades[i]
        IN  OpenedOnCurrent(t) =>
              /\ t.type = "Buy" => candle.close > candle.open
              /\ t.type = "Sell" => candle.close < candle.open

CommittedBeforeOpen ==
    SumSeq([i \in TradeIds |->
              IF all_trades[i].status = "open" /\ ~OpenedOnCurrent(all_trades[i])
                THEN all_trades[i].entry * all_trades[i].position_size ELSE 0])

(* Available (free) capital at the open decision of the current candle *)
AvailableAtOpen == capital - CommittedBeforeOpen

(* C8: free-capital policy: a position opened on the current candle has    *)
(* entry x size <= 2.9% of (capital - capital committed to the positions   *)
(* still open at that instant).                                            *)
C8_FreeCapitalBound ==
    \A i \in TradeIds :
        LET t == all_trades[i]
        IN  (pc = "loop" /\ OpenedOnCurrent(t)) =>
              /\ t.entry * t.position_size * 1000 <= POSITION_SIZE_PERCENT * AvailableAtOpen
              /\ t.money_used = t.entry * t.position_size

C8_Witness ==
    /\ pc = "loop"
    /\ \E i, j, k \in TradeIds :
        /\ OpenedOnCurrent(all_trades[i])
        /\ all_trades[i].position_size > 0
        /\ ClosedOnCurrent(all_trades[j])
        /\ all_trades[k].status = "open" /\ ~OpenedOnCurrent(all_trades[k])

(* The current candle passes the excluded-time test and the distance       *)
(* filter of its side                                                      *)
CandidateOfCurrent ==
    LET trade_type == IF candle.close > candle.open THEN "Buy" ELSE "Sell"
        entry      == IF trade_type = "Buy" THEN candle.close + ENTRY_OFFSET
                                            ELSE candle.close - ENTRY_OFFSET
        stop       == IF trade_type = "Buy" THEN candle.low - SL_OFFSET
                                            ELSE candle.high + SL_OFFSET
    IN  /\ candle.time # EXCLUDED_TIME
        /\ ~is_distance_filtered(Abs(entry - stop), trade_type)

(* No position opened on an earlier candle is left open although the       *)
(* current candle reaches its stop or its target                           *)
ClosesProcessed ==
    \A i \in TradeIds :
        (all_trades[i].status = "open" /\ ~OpenedOnCurrent(all_trades[i]))
          => (~StopReached(all_trades[i], candle) /\ ~TargetReached(all_trades[i], candle))

(* C9: when available capital is <= 0 at the open decision no position is  *)
(* opened on that candle, the close checks of that candle are done all the *)
(* same, and a candle that finds available capital > 0 opens again.        *)
C9_CapitalExhausted ==
    (pc = "loop" /\ idx >= 1) =>
        /\ AvailableAtOpen <= 0 => ~\E i \in TradeIds : OpenedOnCurrent(all_trades[i])
        /\ ClosesProcessed
        /\ capital = InitialCapitalUnits + RealizedProfit
        /\ (AvailableAtOpen > 0 /\ CandidateOfCurrent)
              => \E i \in TradeIds : OpenedOnCurrent(all_trades[i])

(* Available capital after the close checks of candle k, from the record   *)
(* of the trades                                                           *)
AvailableAfter(k) ==
    InitialCapitalUnits
      + SumSeq([i \in TradeIds |->
                  IF all_trades[i].status = "closed" /\ all_trades[i].exit_date <= k
                    THEN all_trades[i].profit ELSE 0])
      - SumSeq([i \in TradeIds |->
                  IF all_trades[i].open_date < k
                       /\ (all_trades[i].status = "open" \/ all_trades[i].exit_date > k)
                    THEN all_trades[i].entry * all_trades[i].position_size ELSE 0])

(* Capital was exhausted on the previous candle, on which a position was   *)
(* closed and none opened, and the current candle opens a position again   *)
C9_Witness ==
    /\ pc = "loop"
    /\ idx >= 2
    /\ AvailableAfter(idx - 1) <= 0
    /\ \E i \in TradeIds :
          all_trades[i].status = "closed" /\ all_trades[i].exit_date = idx - 1
    /\ ~\E i \in TradeIds : all_trades[i].open_date = idx - 1
    /\ AvailableAtOpen > 0
    /\ \E i \in TradeIds : OpenedOnCurrent(all_trades[i])

(* C10: on a candle at the excluded time no position is opened, and the    *)
(* open positions are still tested for close with their profit applied to  *)
(* capital.                                                                *)
C10_ExcludedTime ==
    (pc = "loop" /\ candle.time = EXCLUDED_TIME) =>
        /\ ~\E i \in TradeIds : OpenedOnCurrent(all_trades[i])
        /\ ClosesProcessed
        /\ capital = InitialCapitalUnits + RealizedProfit

C10_Witness ==
    /\ pc = "loop"
    /\ candle.time = EXCLUDED_TIME
    /\ AvailableAtOpen > 0
    /\ \E i, j \in TradeIds :
        /\ ClosedOnCurrent(all_trades[i]) /\ ClosedAtStop(all_trades[i])
        /\ ClosedOnCurrent(all_trades[j]) /\ ClosedAtTarget(all_trades[j])

----------------------------------------------------------------------------
(* Side, entry, stop and distance of the candidate of the current candle *)
CandidateSide == IF candle.close > candle.open THEN "Buy" ELSE "Sell"

CandidateDistance ==
    IF CandidateSide = "Buy"
      THEN Abs((candle.close + ENTRY_OFFSET) - (candle.low - SL_OFFSET))
      ELSE Abs((candle.close - ENTRY_OFFSET) - (candle.high + SL_OFFSET))

ForbiddenDistances(side) ==
    IF side = "Buy" THEN DISTANCE_FILTERS_buy ELSE DISTANCE_FILTERS_sell

(* A distance in tenths of a USD as a whole number of USD *)
RoundedDown(d) == d \div 10

RoundedNearest(d) == (d + 5) \div 10

(* The open list holds exactly the positions that are open *)
OpenSetExact ==
    /\ \A k \in DOMAIN open_positions : all_trades[open_positions[k]].status = "open"
    /\ \A i \in TradeIds :
          all_trades[i].status = "open" => \E k \in DOMAIN open_positions : open_positions[k] = i

(* The candidate of the current candle, outside the excluded time, is      *)
(* rejected exactly when rounded(distance) is forbidden for its side; a    *)
(* rejected candidate opens nothing and leaves capital on the ledger.      *)
FilterRule(rounded) ==
    (pc = "loop" /\ idx >= 1 /\ candle.time # EXCLUDED_TIME) =>
        /\ rounded \in ForbiddenDistances(CandidateSide) =>
              /\ ~\E i \in TradeIds : OpenedOnCurrent(all_trades[i])
              /\ capital = InitialCapitalUnits + RealizedProfit
              /\ OpenSetExact
        /\ (rounded \notin ForbiddenDistances(CandidateSide) /\ AvailableAtOpen > 0)
              => \E i \in TradeIds : OpenedOnCurrent(all_trades[i])

(* C11 as stated: the distance is rounded to the nearest integer.          *)
C11_FilterNearest == FilterRule(RoundedNearest(CandidateDistance))

(* C11 as amended: the distance is rounded down (floor) before it is       *)
(* looked up in the forbidden-distance set of the candidate's own side.    *)
C11_FilterRoundedDown == FilterRule(RoundedDown(CandidateDistance))

(* A Sell candidate of distance 2.6 is rejected (2 is forbidden for Sell,  *)
(* 3 is not) while a Buy of the same distance was opened earlier.          *)
C11_Witness ==
    /\ pc = "loop"
    /\ candle.time # EXCLUDED_TIME
    /\ CandidateSide = "Sell"
    /\ RoundedDown(CandidateDistance) \in DISTANCE_FILTERS_sell
    /\ RoundedNearest(CandidateDistance) \notin DISTANCE_FILTERS_sell
    /\ AvailableAtOpen > 0
    /\ ~\E i \in TradeIds : OpenedOnCurrent(all_trades[i])
    /\ \E i \in TradeIds :
          /\ all_trades[i].type = "Buy"
          /\ all_trades[i].distance = CandidateDistance
          /\ RoundedNearest(all_trades[i].distance) \in DISTANCE_FILTERS_buy

(* C12: the trades are kept and emitted in the order they were opened: the *)
(* k-th trade is the k-th opened, open dates increase along the sequence   *)
(* whatever the order of the closes, and the rows of the output follow the *)
(* same order.                                                             *)
C12_OpenOrder ==
    /\ Len(all_trades) = total_trades_opened
    /\ \A k \in TradeIds : all_trades[k].id = k
    /\ \A a, b \in TradeIds : a < b => all_trades[a].open_date < all_trades[b].open_date
    /\ pc = "done" =>
          /\ Len(csv_data) = Len(all_trades)
          /\ \A k \in DOMAIN csv_data :
                /\ csv_data[k].date = all_trades[k].open_date
                /\ csv_data[k].type = all_trades[k].type
                /\ csv_data[k].entry = all_trades[k].entry
                /\ csv_data[k].reward_risk = all_trades[k].reward_risk

(* A opened before B, B closed before A, A's row still precedes B's *)
C12_Witness ==
    /\ pc = "done"
    /\ \E a, b \in DOMAIN csv_data :
        /\ a < b
        /\ all_trades[a].status = "closed" /\ all_trades[b].status = "closed"
        /\ all_trades[b].exit_date < all_trades[a].exit_date
        /\ csv_data[a].date < csv_data[b].date

(* C13: at the end of the series every position still open is marked at    *)
(* the last candle's close with its unrealized P&L as profit, and the run   *)
(* emits one finalized row per opened position.                            *)
C13_EndOfData ==
    pc = "done" =>
        /\ Len(csv_data) = total_trades_opened
        /\ Len(all_trades) = total_trades_opened
        /\ \A i \in TradeIds :
            LET t == all_trades[i]
            IN  /\ t.exit_price # <<>>
                /\ t.reward_risk \in {"0", "1", "SL"}
                /\ csv_data[i].reward_risk = t.reward_risk
                /\ t.status = "open" =>
                      /\ t.exit_price = <<candle.close>>
                      /\ t.exit_date = candle.date
                      /\ t.reward_risk = "SL"
                      /\ t.profit = IF t.type = "Buy"
                                      THEN (candle.close - t.entry) * t.position_size
                                      ELSE (t.entry - candle.close) * t.position_size

C13_Witness ==
    /\ pc = "done"
    /\ \E i, j, k \in TradeIds :
        /\ all_trades[i].status = "closed"
        /\ all_trades[j].status = "open" /\ all_trades[j].open_date < candle.date
        /\ all_trades[j].profit # 0
        /\ all_trades[k].status = "open" /\ all_trades[k].open_date = candle.date
        /\ all_trades[k].profit < 0

(* C14: a candle series that is not in non-decreasing date order is        *)
(* rejected as a whole: no position opened, no row emitted, capital left   *)
(* at its initial value.                                                   *)
C14_UnsortedRejected ==
    (pc = "done" /\ ~in_order) =>
        /\ total_trades_opened = 0
        /\ all_trades = <<>>
        /\ csv_data = <<>>
        /\ capital = InitialCapitalUnits
        /\ final_capital = InitialCapitalUnits

----------------------------------------------------------------------------
(* Vocabulary of the drawdown properties.  An outcome sequence is the      *)
(* reward_risk column; a loss outcome is the sentinel or the multiple 0.   *)

Multiple(i) == IF reward_risk[i + 1] = "SL" THEN 0 ELSE float(reward_risk[i + 1])

IsLoss(i) == reward_risk[i + 1] \in {"SL", "0"}

Indices == 0..(Len(reward_risk) - 1)

LossIndices == { i \in Indices : IsLoss(i) }

Thresholds == 1..3

(* +R when the multiple reaches R, -1 otherwise *)
Mapped(R, i) == IF Multiple(i) >= R * 100 THEN R ELSE -1

(* Sum of the mapped values from s to i *)
RECURSIVE MappedSum(_, _, _)
MappedSum(R, s, i) == IF i < s THEN 0 ELSE MappedSum(R, s, i - 1) + Mapped(R, i)

SetMin(S) == CHOOSE m \in S : \A x \in S : m <= x

(* The lowest point reached from start s: min over i >= s of min(0, sum) *)
LowestFrom(R, s) ==
    SetMin({0} \cup { MappedSum(R, s, i) : i \in { k \in Indices : k >= s } })

(* The prefix-sum array of threshold R: prefix[i] is the sum of the mapped  *)
(* values of the indices 0..i, and prefix[-1] = 0                          *)
RECURSIVE PrefixUpTo(_, _)
PrefixUpTo(R, i) ==
    IF i < 0 THEN (-1 :> 0)
    ELSE LET before == PrefixUpTo(R, i - 1)
         IN  before @@ (i :> before[i - 1] + Mapped(R, i))

Prefix(R) == PrefixUpTo(R, Len(reward_risk) - 1)

(* The lowest point from s read off the one prefix-sum array: the minimum  *)
(* over the indices s..i of min(prefix[k] - prefix[s - 1], 0)              *)
RECURSIVE PrefixLowestUpTo(_, _, _)
PrefixLowestUpTo(prefix, s, i) ==
    IF i < s THEN 0
    ELSE LET before == PrefixLowestUpTo(prefix, s, i - 1)
             here == prefix[i] - prefix[s - 1]
         IN  IF here < before THEN here ELSE before

PrefixLowest(prefix, s) == PrefixLowestUpTo(prefix, s, Len(reward_risk) - 1)

LpRows == { lp_results[k] : k \in 1..Len(lp_results) }

ZcRows == { zc_results[k] : k \in 1..Len(zc_results) }

Candidates(r) == { r.zero_crossing_positions[k] : k \in 1..Len(r.zero_crossing_positions) }

----------------------------------------------------------------------------
(* C15: for every threshold R evaluated by the loss-position analyzer,     *)
(* with each outcome mapped to +R when its multiple is at least R and to   *)
(* -1 otherwise, absolute_lowest is the minimum over the loss-outcome      *)
(* indices s of the minimum over i >= s of min(0, sum of the mapped values *)
(* from s to i).                                                           *)
C15_AbsoluteLowest ==
    \A r \in LpRows :
        /\ LossIndices # {}
        /\ r.Absolute_Lowest =
               SetMin({ LowestFrom(r.Reward_Level, s) : s \in LossIndices })

C15_Witness ==
    \E r \in LpRows :
        /\ r.Reward_Level = 2
        /\ r.Absolute_Lowest <= -3
        /\ Cardinality(LossIndices) >= 2
        /\ \E i \in Indices : Mapped(2, i) = 2

(* C16: for every outcome sequence that contains a loss and every          *)
(* threshold, no start index gives a lower point than the loss-index       *)
(* starts do: the reported absolute_lowest is the minimum over all start   *)
(* indices.                                                                *)
C16_AllStarts ==
    \A r \in LpRows :
        r.Absolute_Lowest = SetMin({ LowestFrom(r.Reward_Level, s) : s \in Indices })

(* C17: for every outcome sequence, threshold R and start s the lowest     *)
(* point read off one prefix-sum array equals the one found by the naive   *)
(* forward scan from s (low-water mark initialised to 0) and the one found *)
(* by the cumulative sum of the segment from s; the per-threshold results  *)
(* built on either are those of the prefix-sum formulation.  The column    *)
(* never changes during a run, so the per-start part is stated where the   *)
(* run begins.                                                             *)
C17_Formulations ==
    /\ (lp_pc = "start" \/ zc_pc = "start") =>
           \A R \in Thresholds :
               LET prefix == Prefix(R)
                   rrv == rr_values(reward_risk)
                   vals == values(rrv, R)
               IN  \A s \in Indices :
                       LET lowest == PrefixLowest(prefix, s)
                       IN  /\ forward_scan(rrv, R, s, 0, 0) = lowest
                           /\ lowest_in_this_run(vals, s) = lowest
    /\ \A r \in LpRows :
           LET prefix == Prefix(r.Reward_Level)
           IN  r.Absolute_Lowest = SetMin({ PrefixLowest(prefix, s) : s \in LossIndices })
    /\ \A r \in ZcRows :
           LET prefix == Prefix(r.Reward_Level)
           IN  r.Absolute_Lowest =
                   SetMin({ PrefixLowest(prefix, s) : s \in {0} \cup Candidates(r) })

C17_Witness ==
    \E r \in ZcRows :
        /\ r.Starting_Position > 0
        /\ r.Absolute_Lowest <= -2
        /\ PrefixLowest(Prefix(r.Reward_Level), 0) > r.Absolute_Lowest

C19_LossStart ==
    /\ \A r \in LpRows :
           /\ r.Starting_Position # <<>>
           /\ r.Starting_Position[1] \in LossIndices
    /\ \A r \in ZcRows :
           \/ r.Starting_Position \in LossIndices
           \/ r.Starting_Position = 0 /\ LossIndices = {}

(* C20: when several candidate starts reach the same lowest point the      *)
(* loss-position analyzer reports the smallest of their indices; for the   *)
(* multiples [2, loss, 1, loss, 3] and R = 1 it reports absolute_lowest -1 *)
(* with worst_start_index 1.                                               *)
C20_FirstOfTies ==
    /\ \A r \in LpRows :
           \E s \in LossIndices :
               /\ LowestFrom(r.Reward_Level, s) = r.Absolute_Lowest
               /\ \A t \in LossIndices :
                      LowestFrom(r.Reward_Level, t) = r.Absolute_Lowest => s <= t
               /\ r.Starting_Position = <<s>>
    /\ (reward_risk = <<"2", "SL", "1", "SL", "3">> /\ Len(lp_results) >= 1) =>
           lp_results[1] = [Reward_Level |-> 1, Absolute_Lowest |-> -1,
                            Starting_Position |-> <<1>>]

C20_Witness ==
    /\ reward_risk = <<"2", "SL", "1", "SL", "3">>
    /\ Len(lp_results) >= 1
    /\ LowestFrom(1, 1) = LowestFrom(1, 3)

----------------------------------------------------------------------------
(* Vocabulary of the properties of a whole analyzer run *)

SetMax(S) == CHOOSE m \in S : \A x \in S : m >= x

(* The largest multiple of a non-empty outcome sequence, in hundredths *)
MaxMultiple == SetMax({ Multiple(i) : i \in Indices })

(* The integer thresholds from 1 to the largest multiple *)
ThresholdsUpToMax == { R \in Thresholds : R * 100 <= MaxMultiple }

LpEnded == lp_pc \in {"saved", "returned"}

ZcEnded == zc_pc \in {"saved", "ValueError", "UnboundLocalError"}

(* rows holds one row per threshold of ThresholdsUpToMax, ascending *)
OnePerThreshold(rows) ==
    /\ Len(rows) = Cardinality(ThresholdsUpToMax)
    /\ \A k \in 1..Len(rows) : rows[k].Reward_Level = k

(* C21: for a non-empty outcome sequence a finished analyzer run has       *)
(* returned exactly one result per integer threshold R with 1 <= R <= the  *)
(* largest multiple of the sequence, in ascending order of R, and no       *)
(* result for a larger R.                                                  *)
C21_OnePerThreshold ==
    reward_risk # <<>> =>
        /\ LpEnded => OnePerThreshold(lp_results)
        /\ ZcEnded => OnePerThreshold(zc_results)

(* C22: for a non-empty outcome sequence without a loss the analyzer does  *)
(* not fail; for every threshold up to the largest multiple it returns the *)
(* result of the start index 0: worst_start_index 0 and absolute_lowest    *)
(* the lowest point of the whole sequence.                                 *)
C22_NoLossFallback ==
    (reward_risk # <<>> /\ LossIndices = {}) =>
        /\ LpEnded =>
               /\ lp_pc = "saved"
               /\ OnePerThreshold(lp_results)
               /\ \A r \in LpRows :
                      /\ r.Starting_Position = <<0>>
                      /\ r.Absolute_Lowest = LowestFrom(r.Reward_Level, 0)
        /\ ZcEnded =>
               /\ zc_pc = "saved"
               /\ OnePerThreshold(zc_results)
               /\ \A r \in ZcRows :
                      /\ r.Starting_Position = 0
                      /\ r.Absolute_Lowest = LowestFrom(r.Reward_Level, 0)

(* C23: for an empty outcome sequence the analyzer stops with a failure    *)
(* and without any result: it never evaluates a threshold and never saves  *)
(* a result file.                                                          *)
C23_EmptyFails ==
    reward_risk = <<>> =>
        /\ lp_results = <<>>
        /\ zc_results = <<>>
        /\ lp_pc \in {"idle", "start", "returned"}
        /\ zc_pc \in {"idle", "start", "ValueError"}

C23_Witness ==
    /\ reward_risk = <<>>
    /\ zc_pc = "ValueError"
    /\ zc_results = <<>>

----------------------------------------------------------------------------
(* The columns of a result row of the zero-crossing analyzer *)
Reported(r) ==
    [Reward_Level |-> r.Reward_Level, Absolute_Lowest |-> r.Absolute_Lowest,
     Starting_Position |-> r.Starting_Position, Zero_Crossings |-> r.Zero_Crossings]

(* PHASE 1 of threshold R evaluated on its own, with nothing bound by an   *)
(* earlier threshold                                                       *)
AloneAt(R) == initial_pass(reward_risk, R, 0, initial_pass_start(<<>>))

(* C24: the result of a threshold R is a function of the outcome sequence  *)
(* and R alone: the row an analyzer run holds for R is the row obtained by *)
(* evaluating R on its own, whatever thresholds were evaluated before it.  *)
C24_PureFunction ==
    /\ \A k \in 1..Len(lp_results) :
           lp_results[k] = loss_positions_result(rr_values(reward_risk), k)
    /\ \A k \in 1..Len(zc_results) :
           /\ ~AloneAt(k).raised
           /\ Reported(zc_results[k]) =
                  Reported(zero_crossing_result(reward_risk, k, AloneAt(k)))

----------------------------------------------------------------------------
(* The indices after i that hold the sentinel "SL" *)
SentinelsAfter(i) == { j \in Indices : j > i /\ reward_risk[j + 1] = "SL" }

(* The candidate starts of threshold R from index i on: for each index     *)
(* where the running total of the whole sequence is 0, the first "SL"      *)
(* index after it, if there is one                                         *)
RECURSIVE ExpectedCandidatesFrom(_, _)
ExpectedCandidatesFrom(prefix, i) ==
    IF i >= Len(reward_risk) THEN <<>>
    ELSE (IF prefix[i] = 0 /\ SentinelsAfter(i) # {}
          THEN <<SetMin(SentinelsAfter(i))>> ELSE <<>>)
         \o ExpectedCandidatesFrom(prefix, i + 1)

(* C28: in the zero-crossing analyzer the candidate recorded for an index  *)
(* i where the running total of the initial pass is 0 is the first "SL"    *)
(* index after i; when no "SL" follows i nothing is recorded and the run   *)
(* does not fail; no candidate is carried over from an earlier crossing or *)
(* an earlier reward level.                                                *)
C28_NextSentinel ==
    /\ zc_pc # "UnboundLocalError"
    /\ \A r \in ZcRows :
           r.zero_crossing_positions = ExpectedCandidatesFrom(Prefix(r.Reward_Level), 0)

----------------------------------------------------------------------------
(* C29: for the same trades and the same reward level the results file of  *)
(* calculate_lowest_drawdown and the text report of create_detailed_report *)
(* hold the same Absolute Lowest and the same Worst Starting Position.     *)
C29_ReportAgrees ==
    \A k \in 1..Len(rp_results) :
        /\ rp_results[k].Absolute_Lowest = zc_results[k].Absolute_Lowest
        /\ rp_results[k].Starting_Position = zc_results[k].Starting_Position

----------------------------------------------------------------------------
(* C25: for every opened position the take-profit mirrors the stop-loss    *)
(* around the entry: |take_profit - entry| = |entry - stop_loss| =         *)
(* distance, with stop_loss < entry < take_profit for a Buy and            *)
(* take_profit < entry < stop_loss for a Sell.                             *)
C25_TakeProfitMirror ==
    \A id \in TradeIds :
        LET t == all_trades[id]
        IN  /\ Abs(t.take_profit - t.entry) = t.distance
            /\ Abs(t.entry - t.stop_loss) = t.distance
            /\ t.type = "Buy" => (t.stop_loss < t.entry /\ t.entry < t.take_profit)
            /\ t.type = "Sell" => (t.take_profit < t.entry /\ t.entry < t.stop_loss)

C25_Witness ==
    /\ \E id \in TradeIds : all_trades[id].type = "Buy"
    /\ \E id \in TradeIds : all_trades[id].type = "Sell" /\ all_trades[id].take_profit < 0

(* The positions that a step closes *)
ClosedByStep ==
    { id \in TradeIds : all_trades[id].status = "open" /\ all_trades'[id].status = "closed" }

RECURSIVE ProfitOf(_)
ProfitOf(ids) ==
    IF ids = {} THEN 0
    ELSE LET id == CHOOSE x \in ids : TRUE
         IN  all_trades'[id].profit + ProfitOf(ids \ {id})

(* C26: capital changes only in a step that closes a position, and then by *)
(* the profit of the positions closed; a step that opens a position or     *)
(* rejects a candidate leaves it unchanged; a status check that reaches    *)
(* neither the stop nor the target leaves the position's status, exit      *)
(* price, profit and reward value unchanged; a closed position is never    *)
(* modified again.                                                         *)
C26_CapitalFrame ==
    [][ /\ capital' = capital + ProfitOf(ClosedByStep)
        /\ (ClosedByStep = {}) => capital' = capital
        /\ \A id \in TradeIds :
               /\ id \in 1..Len(all_trades')
               /\ all_trades[id].status = "closed" => all_trades'[id] = all_trades[id]
               /\ (/\ pc' = "loop"
                   /\ all_trades[id].status = "open"
                   /\ ~StopReached(all_trades[id], candle')
                   /\ ~TargetReached(all_trades[id], candle'))
                  => /\ all_trades'[id].status = all_trades[id].status
                     /\ all_trades'[id].exit_price = all_trades[id].exit_price
                     /\ all_trades'[id].profit = all_trades[id].profit
                     /\ all_trades'[id].reward_risk = all_trades[id].reward_risk
      ]_vars

C26_Witness ==
    /\ pc = "loop"
    /\ capital # InitialCapitalUnits
    /\ \E id \in TradeIds : ClosedOnCurrent(all_trades[id])
    /\ \E id \in TradeIds :
           /\ all_trades[id].status = "open"
           /\ all_trades[id].open_date < candle.date
    /\ \E id \in TradeIds : OpenedOnCurrent(all_trades[id])

----------------------------------------------------------------------------
StrategyTrades == { cs_trades[k] : k \in 1..Len(cs_trades) }

(* The rows after the opening row of t that come strictly before the row   *)
(* that hit its stop-loss (all the rows it was held when none did)         *)
RowsBeforeStop(t) ==
    { j \in (t.datetime + 1)..(t.datetime + t.candles_held) :
          t.close_reason = "Stop Loss" => j < t.datetime + t.candles_held }

(* The favourable excursion of t on row j *)
Excursion(t, j) ==
    IF t.type = "Buy" THEN data[j + 1].high - t.entry ELSE t.entry - data[j + 1].low

HighestBeforeStop(t) == SetMax({0} \cup { Excursion(t, j) : j \in RowsBeforeStop(t) })

(* C27: the max_profit recorded for a trade of backtest_candle_strategy is *)
(* the largest favourable excursion, never below 0, over the candles after *)
(* the opening candle and strictly before the candle that hits the         *)
(* stop-loss; the stop candle's own high or low raises neither max_profit  *)
(* nor the reward/risk value.                                              *)
C27_MaxProfitBeforeStop ==
    \A t \in StrategyTrades :
        /\ t.max_profit = HighestBeforeStop(t)
        /\ t.reward_risk =
               (IF HighestBeforeStop(t) < t.distance THEN <<>>
                ELSE <<round_reward_risk(HighestBeforeStop(t), t.distance)>>)

----------------------------------------------------------------------------
(* The drawdown mapping of an outcome at threshold R: a win iff its        *)
(* multiple is at least R                                                  *)
IsWin(rr, R) == rr # "SL" /\ float(rr) >= R * 100

MappedColumn(column, R) ==
    [k \in 1..Len(column) |-> IF IsWin(column[k], R) THEN R ELSE -1]

(* The longest run of consecutive losses of the column at threshold R *)
LongestLossRun(column, R) ==
    SetMax({0} \cup
           { b - a + 1 : <<a, b>> \in
               { p \in (1..Len(column)) \X (1..Len(column)) :
                   /\ p[1] <= p[2]
                   /\ \A k \in p[1]..p[2] : ~IsWin(column[k], R) } })

(* C30: every consumer of the outcome sequence classifies an outcome at    *)
(* the threshold as the drawdown mapping does (a win iff the multiple is   *)
(* at least the threshold, 'SL' a loss): the list score and the net score  *)
(* are those of the mapped column, and the longest losing streak is its    *)
(* longest run of losses.                                                  *)
C30_SameClassification ==
    /\ list_score # <<>> =>
           list_score = <<SumSeq(MappedColumn(trades_df, rr_threshold))
                              - (Len(trades_df) \div 20)>>
    /\ net_score # <<>> =>
           net_score = <<10 * SumSeq(MappedColumn(trades_df, rr_threshold))
                              - Len(trades_df)>>
    /\ max_losing_streak # <<>> =>
           max_losing_streak = <<LongestLossRun(trades_df, rr_threshold)>>

====
